---- MODULE Spec2Model ----
(***************************************************************************)
(* go-todo-api: the token service (GenerateToken, ValidateToken), the      *)
(* authorization gate (AuthMiddleware, GetUserIDFromContext) and the       *)
(* handlers behind and beside it, over the users/todos store.              *)
(*                                                                         *)
(* Time is counted in ticks, TicksPerSecond of them to a second, so that   *)
(* the truncation of a NumericDate to whole seconds is visible.  A string  *)
(* that may hold a token is a record [pre, tok]: pre is the sequence of    *)
(* space-terminated words in front of the token, tok the token itself      *)
(* (three segments: header, payload, signature).  An HMAC is the symbolic  *)
(* value of its algorithm, key and input: equal only when all three are.   *)
(***************************************************************************)
EXTENDS Integers, Sequences, FiniteSets, TLC

VARIABLES environ, clock, users, userSeq, todos, todoSeq, issued, resp, inflight

vars == <<environ, clock, users, userSeq, todos, todoSeq, issued, resp, inflight>>

-----------------------------------------------------------------------------
(* Bounds of the model *)

TicksPerSecond == 2
MaxUsers == 2
MaxTodos == 1
MaxIssued == 1
MaxInflight == 2

(* Program constants *)

ValidityHours == 2
SecondsPerHour == 3600
MinPasswordLen == 8
DefaultLimit == 10

Second == TicksPerSecond
Hour == SecondsPerHour * Second
Validity == ValidityHours * Hour

\* The instants the clock is observed at: around issuance and around expiry.
ClockValues == (0 .. 1) \cup ((Validity - 1) .. (Validity + 1))

-----------------------------------------------------------------------------
(* Process environment *)

EnvName == "JWT_SECRET_KEY"
Secrets == {"k1", "k2"}
\* The environment is a set of <<name, value>> pairs, one per name.
NoEnv == {}

\* os.Getenv: the value of the variable, "" when it is unset.
Getenv(env, name) ==
    IF \E p \in env : p[1] = name
    THEN (CHOOSE p \in env : p[1] = name)[2]
    ELSE ""

EnvValues == {NoEnv} \cup {{<<EnvName, v>>} : v \in {""} \cup Secrets}

-----------------------------------------------------------------------------
(* Tokens *)

HMACAlgs == {"HS256", "HS384", "HS512"}
\* jwt.GetSigningMethod knows these (of the ones the model uses); "XX" is
\* an algorithm name it does not know.
RegisteredAlgs == HMACAlgs \cup {"none", "RS256"}

NoClaims == [user_id |-> 0, exp |-> 0, iat |-> 0]

\* The text a signature is computed over: the header and payload segments.
SigningInput(alg, claims) == [alg |-> alg, claims |-> claims]

\* HMAC under algorithm alg and key over input.
HMAC(alg, key, input) == [alg |-> alg, key |-> key, input |-> input]

NoMAC == HMAC("", "", SigningInput("", NoClaims))

\* Bits of the last base64url character of a signature segment that carry
\* no signature bit: 32 bytes in 43 characters, 48 in 64, 64 in 86.
TrailingBits(alg) ==
    CASE alg = "HS256" -> 2
      [] alg = "HS384" -> 0
      [] alg = "HS512" -> 4
      [] OTHER -> 0

\* base64.RawURLEncoding.EncodeToString: the trailing bits are zero.
EncodeSegment(mac) == [mac |-> mac, pad |-> 0]

\* Parser.DecodeSegment without WithStrictDecoding: the trailing bits of
\* the last character are dropped, whatever they are.
DecodeSegment(seg) == seg.mac

EmptyTok == [kind |-> "empty", alg |-> "", claims |-> NoClaims,
             sig |-> EncodeSegment(NoMAC)]
GarbageTok == [kind |-> "garbage", alg |-> "", claims |-> NoClaims,
               sig |-> EncodeSegment(NoMAC)]

EmptyStr == [pre |-> << >>, tok |-> EmptyTok]

\* time.Time.Truncate(time.Second), as jwt.NewNumericDate applies it.
Truncate(t) == (t \div Second) * Second

NewNumericDate(t) == Truncate(t)

\* Token.SignedString for an HMAC method.
SignedString(alg, claims, key) ==
    [kind |-> "jwt", alg |-> alg, claims |-> claims,
     sig |-> EncodeSegment(HMAC(alg, key, SigningInput(alg, claims)))]

\* GenerateToken with a validity of one hour instead of two.
GenerateTokenOneHour(userID, env, now1, now2) ==
    LET secretKey == Getenv(env, EnvName) IN
    IF secretKey = ""
    THEN [token |-> EmptyStr,
          err |-> <<"JWT_SECRET_KEY environment variable not set">>]
    ELSE LET claims == [user_id |-> userID,
                        exp |-> NewNumericDate(now1 + Hour),
                        iat |-> NewNumericDate(now2)]
         IN [token |-> [pre |-> << >>,
                        tok |-> SignedString("HS256", claims, secretKey)],
             err |-> << >>]

\* GenerateToken(userID), with the environment it reads and the two
\* readings of time.Now() it takes (for ExpiresAt, then for IssuedAt).
GenerateToken(userID, env, now1, now2) ==
    LET secretKey == Getenv(env, EnvName) IN
    IF secretKey = ""
    THEN [token |-> EmptyStr,
          err |-> <<"JWT_SECRET_KEY environment variable not set">>]
    ELSE LET claims == [user_id |-> userID,
                        exp |-> NewNumericDate(now1 + Validity),
                        iat |-> NewNumericDate(now2)]
         IN [token |-> [pre |-> << >>,
                        tok |-> SignedString("HS256", claims, secretKey)],
             err |-> << >>]

\* The key function ValidateToken hands to the parser.
Keyfunc(alg, secretKey) ==
    IF alg \notin HMACAlgs
    THEN [key |-> "", err |-> <<"unexpected signing method: ", alg>>]
    ELSE [key |-> secretKey, err |-> << >>]

\* SigningMethodHMAC.Verify: recompute and compare.
Verify(alg, input, mac, key) == mac = HMAC(alg, key, input)

\* The expiry check accepting the instant of expiry itself.
VerifyExpiresAtInclusive(claims, now) == now <= claims.exp

\* Validator.Validate on the claims GenerateToken sets: exp only (iat is
\* not verified unless asked for).
VerifyExpiresAt(claims, now) == now < claims.exp

\* jwt.ParseWithClaims with ValidateToken's key function, at time now.
ParseWithClaims(s, secretKey, now) ==
    LET t == s.tok
        bad(e) == [valid |-> FALSE, claims |-> NoClaims, err |-> e]
    IN
    IF s.pre # << >> \/ t.kind # "jwt"
    THEN bad(<<"token is malformed">>)
    ELSE IF t.alg \notin RegisteredAlgs
    THEN bad(<<"token is unverifiable", "signing method (alg) is unavailable">>)
    ELSE LET k == Keyfunc(t.alg, secretKey) IN
    IF k.err # << >>
    THEN bad(<<"token is unverifiable", "error while executing keyfunc">> \o k.err)
    ELSE IF ~Verify(t.alg, SigningInput(t.alg, t.claims), DecodeSegment(t.sig), k.key)
    THEN bad(<<"token signature is invalid", "signature is invalid">>)
    ELSE IF ~VerifyExpiresAt(t.claims, now)
    THEN bad(<<"token has invalid claims", "token is expired">>)
    ELSE [valid |-> TRUE, claims |-> t.claims, err |-> << >>]

\* ValidateToken without the check that the secret is set.
ValidateTokenNoSecretCheck(jwtString, env, now) ==
    LET secretKey == Getenv(env, EnvName)
        p == ParseWithClaims(jwtString, secretKey, now)
    IN IF p.err # << >>
       THEN [ok |-> FALSE, claims |-> NoClaims,
             err |-> <<"token parsing error: ">> \o p.err]
       ELSE IF p.valid
       THEN [ok |-> TRUE, claims |-> p.claims, err |-> << >>]
       ELSE [ok |-> FALSE, claims |-> NoClaims,
             err |-> <<"invalid or expired token">>]

\* ValidateToken(jwtString), with the environment and the clock it reads.
ValidateToken(jwtString, env, now) ==
    LET secretKey == Getenv(env, EnvName) IN
    IF secretKey = ""
    THEN [ok |-> FALSE, claims |-> NoClaims,
          err |-> <<"JWT_SECRET_KEY environment variable not set">>]
    ELSE LET p == ParseWithClaims(jwtString, secretKey, now) IN
         IF p.err # << >>
         THEN [ok |-> FALSE, claims |-> NoClaims,
               err |-> <<"token parsing error: ">> \o p.err]
         ELSE IF p.valid
         THEN [ok |-> TRUE, claims |-> p.claims, err |-> << >>]
         ELSE [ok |-> FALSE, claims |-> NoClaims,
               err |-> <<"invalid or expired token">>]

-----------------------------------------------------------------------------
(* Authorization gate *)

contextKey == "userID"
BearerPrefix == "Bearer "

\* context.WithValue: the context is a set of <<key, value>> pairs.
WithValue(ctx, key, val) == {p \in ctx : p[1] # key} \cup {<<key, val>>}

\* The accessor looking under another key than the gate stores under.
GetUserIDFromContextWrongKey(ctx) ==
    IF \E p \in ctx : p[1] = "user_id"
    THEN [userID |-> (CHOOSE p \in ctx : p[1] = "user_id")[2], ok |-> TRUE]
    ELSE [userID |-> 0, ok |-> FALSE]

\* The accessor dropping the flag of the type assertion: the zero value
\* counts as found.
GetUserIDFromContextAlwaysFound(ctx) ==
    IF \E p \in ctx : p[1] = contextKey
    THEN [userID |-> (CHOOSE p \in ctx : p[1] = contextKey)[2], ok |-> TRUE]
    ELSE [userID |-> 0, ok |-> TRUE]

GetUserIDFromContext(ctx) ==
    IF \E p \in ctx : p[1] = contextKey
    THEN [userID |-> (CHOOSE p \in ctx : p[1] = contextKey)[2], ok |-> TRUE]
    ELSE [userID |-> 0, ok |-> FALSE]

\* http.Header.Get: the headers of a request are a set of <<name, value>>
\* pairs; the value of a header that is not there is the empty string.
HeaderGet(header, name) ==
    IF \E p \in header : p[1] = name
    THEN (CHOOSE p \in header : p[1] = name)[2]
    ELSE EmptyStr

\* A prefix test that ignores case.
TrimPrefixAnyCase(s, prefix) ==
    IF s.pre # << >> /\ Head(s.pre) \in {prefix, "bearer "}
    THEN [s EXCEPT !.pre = Tail(s.pre)]
    ELSE s

\* strings.TrimPrefix(s, "Bearer ")
TrimPrefix(s, prefix) ==
    IF s.pre # << >> /\ Head(s.pre) = prefix
    THEN [s EXCEPT !.pre = Tail(s.pre)]
    ELSE s

\* AuthMiddleware with the return after the 401 of a failed validation
\* left out: the wrapped handler is called all the same.
AuthMiddlewareNoReturn(header, env, now) ==
    LET reject(msg, tr, arg) ==
            [pass |-> FALSE, status |-> 401, body |-> msg, ctx |-> {},
             trace |-> tr, validated |-> arg]
        authHeader == HeaderGet(header, "Authorization")
        tokenString == TrimPrefix(authHeader, BearerPrefix)
        v == ValidateToken(tokenString, env, now)
    IN
    IF authHeader = EmptyStr
    THEN reject(<<"Authorization header required">>, <<"Header.Get">>, EmptyStr)
    ELSE IF tokenString = authHeader
    THEN reject(<<"Invalid token format (expected 'Bearer <token>')">>,
                <<"Header.Get", "TrimPrefix">>, EmptyStr)
    ELSE [pass |-> TRUE, status |-> 0, body |-> << >>,
          ctx |-> WithValue({}, contextKey, v.claims.user_id),
          trace |-> <<"Header.Get", "TrimPrefix", "ValidateToken", "ServeHTTP">>,
          validated |-> tokenString]

\* AuthMiddleware without the test for an empty header value.
AuthMiddlewareNoHeaderCheck(header, env, now) ==
    LET reject(msg, tr, arg) ==
            [pass |-> FALSE, status |-> 401, body |-> msg, ctx |-> {},
             trace |-> tr, validated |-> arg]
        authHeader == HeaderGet(header, "Authorization")
        tokenString == TrimPrefix(authHeader, BearerPrefix)
        v == ValidateToken(tokenString, env, now)
    IN
    IF tokenString = authHeader
    THEN reject(<<"Invalid token format (expected 'Bearer <token>')">>,
                <<"Header.Get", "TrimPrefix">>, EmptyStr)
    ELSE IF ~v.ok
    THEN reject(<<"Invalid or expired token: ">> \o v.err,
                <<"Header.Get", "TrimPrefix", "ValidateToken">>, tokenString)
    ELSE [pass |-> TRUE, status |-> 0, body |-> << >>,
          ctx |-> WithValue({}, contextKey, v.claims.user_id),
          trace |-> <<"Header.Get", "TrimPrefix", "ValidateToken", "ServeHTTP">>,
          validated |-> tokenString]

\* The body of the handler AuthMiddleware returns, up to the call of the
\* wrapped handler: whether that call is made, with which context, and the
\* response when it is not.  trace lists the steps taken, validated the
\* argument of ValidateToken when it was called.
AuthMiddleware(header, env, now) ==
    LET reject(msg, tr, arg) ==
            [pass |-> FALSE, status |-> 401, body |-> msg, ctx |-> {},
             trace |-> tr, validated |-> arg]
        authHeader == HeaderGet(header, "Authorization")
        tokenString == TrimPrefix(authHeader, BearerPrefix)
        v == ValidateToken(tokenString, env, now)
    IN
    IF authHeader = EmptyStr
    THEN reject(<<"Authorization header required">>, <<"Header.Get">>, EmptyStr)
    ELSE IF tokenString = authHeader
    THEN reject(<<"Invalid token format (expected 'Bearer <token>')">>,
                <<"Header.Get", "TrimPrefix">>, EmptyStr)
    ELSE IF ~v.ok
    THEN reject(<<"Invalid or expired token: ">> \o v.err,
                <<"Header.Get", "TrimPrefix", "ValidateToken">>, tokenString)
    ELSE [pass |-> TRUE, status |-> 0, body |-> << >>,
          ctx |-> WithValue({}, contextKey, v.claims.user_id),
          trace |-> <<"Header.Get", "TrimPrefix", "ValidateToken", "ServeHTTP">>,
          validated |-> tokenString]

-----------------------------------------------------------------------------
(* Store: the users and todos tables of migrations/create_tables.sql.      *)
(* A SERIAL id is drawn from its sequence by every INSERT that is tried.   *)

\* bcrypt.GenerateFromPassword and bcrypt.CompareHashAndPassword.
GenerateFromPassword(password) == [bcrypt |-> password]
CompareHashAndPassword(hash, password) == hash = GenerateFromPassword(password)

\* One item of a JSON answer: models.TodoItem (CuratorID is never set).
TodoItem(id, title, desc) ==
    [id |-> id, curator_id |-> 0, title |-> title, description |-> desc]

\* strconv.Atoi on a piece of text: [kind, val], kind "int" when it is the
\* decimal form of val.
Atoi(text) == [ok |-> text.kind = "int", val |-> IF text.kind = "int" THEN text.val ELSE 0]

EmptyText == [kind |-> "empty", val |-> 0]
IntText(i) == [kind |-> "int", val |-> i]

RECURSIVE SortedItems(_)
\* The rows in S as TodoItems, ORDER BY id ASC.
SortedItems(S) ==
    IF S = {} THEN << >>
    ELSE LET r == CHOOSE x \in S : \A y \in S : x.id <= y.id
         IN <<TodoItem(r.id, r.title, r.description)>> \o SortedItems(S \ {r})

\* LIMIT limit OFFSET offset
LimitOffset(seq, limit, offset) ==
    SubSeq(seq, offset + 1, IF offset + limit < Len(seq) THEN offset + limit ELSE Len(seq))

TodoResult(status, body, data, rows, seq) ==
    [status |-> status, body |-> body, data |-> data, todos |-> rows, todoSeq |-> seq]

AddTodo(method, ctx, body, userRows, rows, seq) ==
    LET id == GetUserIDFromContext(ctx)
        fail(st, msg) == TodoResult(st, msg, << >>, rows, seq)
    IN
    IF method # "POST" THEN fail(405, <<"Unaccepted method">>)
    ELSE IF ~id.ok
    THEN fail(401, <<"User ID not found in context. Authentication is required">>)
    ELSE IF ~body.valid THEN fail(400, <<"Invalid request payload">>)
    ELSE IF body.title = "" \/ body.description = ""
    THEN fail(400, <<"All fields are required">>)
    ELSE IF ~\E u \in userRows : u.id = id.userID
    THEN TodoResult(500, <<"Failed to crate todo: ", "foreign key violation">>,
                    << >>, rows, seq + 1)
    ELSE TodoResult(201, << >>,
                    <<TodoItem(seq + 1, body.title, body.description)>>,
                    rows \cup {[id |-> seq + 1, user_id |-> id.userID,
                                title |-> body.title,
                                description |-> body.description]},
                    seq + 1)

UpdateTodo(method, ctx, seg, body, rows, seq) ==
    LET id == GetUserIDFromContext(ctx)
        todoID == Atoi(seg)
        fail(st, msg) == TodoResult(st, msg, << >>, rows, seq)
        hit == {r \in rows : r.id = todoID.val /\ r.user_id = id.userID}
    IN
    IF method # "PUT" THEN fail(405, <<"Unaccepted method">>)
    ELSE IF ~id.ok
    THEN fail(401, <<"User ID not found in context. Authentication is required">>)
    ELSE IF seg = EmptyText THEN fail(400, <<"Todo ID missing in URL path">>)
    ELSE IF ~todoID.ok
    THEN fail(400, <<"Invalid todo ID format. Must be an integer.">>)
    ELSE IF ~body.valid THEN fail(400, <<"Invalid request payload">>)
    ELSE IF body.title = "" \/ body.description = ""
    THEN fail(400, <<"All fields are required">>)
    ELSE IF hit = {} THEN fail(403, <<"Todo not found">>)
    ELSE TodoResult(200, << >>,
                    <<TodoItem(todoID.val, body.title, body.description)>>,
                    (rows \ hit) \cup
                        {[r EXCEPT !.title = body.title,
                                   !.description = body.description] : r \in hit},
                    seq)

\* DeleteTodo with a DELETE that does not name the owner.
DeleteTodoAnyOwner(method, ctx, seg, rows, seq) ==
    LET id == GetUserIDFromContext(ctx)
        todoID == Atoi(seg)
        fail(st, msg) == TodoResult(st, msg, << >>, rows, seq)
        hit == {r \in rows : r.id = todoID.val}
    IN
    IF method # "DELETE" THEN fail(405, <<"Unaccepted method">>)
    ELSE IF ~id.ok
    THEN fail(401, <<"User ID not found in context. Authentication is required">>)
    ELSE IF seg = EmptyText THEN fail(400, <<"Todo ID missing in URL path">>)
    ELSE IF ~todoID.ok
    THEN fail(400, <<"Invalid todo ID format. Must be an integer.">>)
    ELSE IF hit = {} THEN fail(403, <<"Todo not found">>)
    ELSE TodoResult(204, << >>, << >>, rows \ hit, seq)

DeleteTodo(method, ctx, seg, rows, seq) ==
    LET id == GetUserIDFromContext(ctx)
        todoID == Atoi(seg)
        fail(st, msg) == TodoResult(st, msg, << >>, rows, seq)
        hit == {r \in rows : r.id = todoID.val /\ r.user_id = id.userID}
    IN
    IF method # "DELETE" THEN fail(405, <<"Unaccepted method">>)
    ELSE IF ~id.ok
    THEN fail(401, <<"User ID not found in context. Authentication is required">>)
    ELSE IF seg = EmptyText THEN fail(400, <<"Todo ID missing in URL path">>)
    ELSE IF ~todoID.ok
    THEN fail(400, <<"Invalid todo ID format. Must be an integer.">>)
    ELSE IF hit = {} THEN fail(403, <<"Todo not found">>)
    ELSE TodoResult(204, << >>, << >>, rows \ hit, seq)

GetTodos(method, ctx, pageStr, limitStr, rows, seq) ==
    LET id == GetUserIDFromContext(ctx)
        p == Atoi(pageStr)
        l == Atoi(limitStr)
        page == IF ~p.ok \/ p.val < 1 THEN 1 ELSE p.val
        limit == IF ~l.ok \/ l.val < 1 THEN DefaultLimit ELSE l.val
        offset == (page - 1) * limit
        mine == {r \in rows : r.user_id = id.userID}
    IN
    IF method # "GET" THEN TodoResult(405, <<"Unaccepted method">>, << >>, rows, seq)
    ELSE IF ~id.ok
    THEN TodoResult(401, <<"User ID not found in context. Authentication is required">>,
                    << >>, rows, seq)
    ELSE TodoResult(200, << >>, LimitOffset(SortedItems(mine), limit, offset), rows, seq)

\* sub is the user ID GenerateToken was called with (0 when it was not).
UserResult(status, body, token, sub, rows, seq) ==
    [status |-> status, body |-> body, token |-> token, sub |-> sub,
     users |-> rows, userSeq |-> seq]

\* RegisterUser with the INSERT undone when the token cannot be made.
RegisterUserRollback(method, body, env, now1, now2, rows, seq) ==
    LET fail(st, msg) == UserResult(st, msg, EmptyStr, 0, rows, seq)
        hashedPassword == GenerateFromPassword(body.password)
        userID == seq + 1
        inserted == rows \cup {[id |-> userID, email |-> body.email, name |-> body.name,
                                password_hash |-> hashedPassword]}
        t == GenerateToken(userID, env, now1, now2)
    IN
    IF method # "POST" THEN fail(405, <<"Unaccepted method">>)
    ELSE IF ~body.valid THEN fail(400, <<"Invalid request payload">>)
    ELSE IF body.email = "" \/ body.name = "" \/ body.password = << >>
    THEN fail(400, <<"All fields are required">>)
    ELSE IF Len(body.password) < MinPasswordLen
    THEN fail(400, <<"Password must be at least 8 characters long">>)
    ELSE IF \E u \in rows : u.email = body.email
    THEN UserResult(409, <<"Email already exists">>, EmptyStr, 0, rows, seq + 1)
    ELSE IF t.err # << >>
    THEN UserResult(500, <<"Failed to generate authentication token">>, EmptyStr,
                    userID, rows, seq + 1)
    ELSE UserResult(201, << >>, t.token, userID, inserted, seq + 1)

RegisterUser(method, body, env, now1, now2, rows, seq) ==
    LET fail(st, msg) == UserResult(st, msg, EmptyStr, 0, rows, seq)
        hashedPassword == GenerateFromPassword(body.password)
        userID == seq + 1
        inserted == rows \cup {[id |-> userID, email |-> body.email, name |-> body.name,
                                password_hash |-> hashedPassword]}
        t == GenerateToken(userID, env, now1, now2)
    IN
    IF method # "POST" THEN fail(405, <<"Unaccepted method">>)
    ELSE IF ~body.valid THEN fail(400, <<"Invalid request payload">>)
    ELSE IF body.email = "" \/ body.name = "" \/ body.password = << >>
    THEN fail(400, <<"All fields are required">>)
    ELSE IF Len(body.password) < MinPasswordLen
    THEN fail(400, <<"Password must be at least 8 characters long">>)
    ELSE IF \E u \in rows : u.email = body.email
    THEN UserResult(409, <<"Email already exists">>, EmptyStr, 0, rows, seq + 1)
    ELSE IF t.err # << >>
    THEN UserResult(500, <<"Failed to generate authentication token">>, EmptyStr,
                    userID, inserted, seq + 1)
    ELSE UserResult(201, << >>, t.token, userID, inserted, seq + 1)

\* LoginUser without the comparison of the password with the stored hash.
LoginUserNoCompare(method, body, env, now1, now2, rows, seq) ==
    LET fail(st, msg) == UserResult(st, msg, EmptyStr, 0, rows, seq)
        found == {u \in rows : u.email = body.email}
        row == CHOOSE u \in found : TRUE
        t == GenerateToken(row.id, env, now1, now2)
    IN
    IF method # "POST" THEN fail(405, <<"Unaccepted method">>)
    ELSE IF ~body.valid THEN fail(400, <<"Invalid request payload">>)
    ELSE IF body.email = "" \/ body.password = << >>
    THEN fail(400, <<"Input all fields to login">>)
    ELSE IF found = {} THEN fail(401, <<"Invalid credentials">>)
    ELSE IF t.err # << >>
    THEN UserResult(500, <<"Failed to generate authentication token">>, EmptyStr,
                    row.id, rows, seq)
    ELSE UserResult(200, << >>, t.token, row.id, rows, seq)

LoginUser(method, body, env, now1, now2, rows, seq) ==
    LET fail(st, msg) == UserResult(st, msg, EmptyStr, 0, rows, seq)
        found == {u \in rows : u.email = body.email}
        row == CHOOSE u \in found : TRUE
        t == GenerateToken(row.id, env, now1, now2)
    IN
    IF method # "POST" THEN fail(405, <<"Unaccepted method">>)
    ELSE IF ~body.valid THEN fail(400, <<"Invalid request payload">>)
    ELSE IF body.email = "" \/ body.password = << >>
    THEN fail(400, <<"Input all fields to login">>)
    ELSE IF found = {} THEN fail(401, <<"Invalid credentials">>)
    ELSE IF ~CompareHashAndPassword(row.password_hash, body.password)
    THEN fail(401, <<"Invalid credentials">>)
    ELSE IF t.err # << >>
    THEN UserResult(500, <<"Failed to generate authentication token">>, EmptyStr,
                    row.id, rows, seq)
    ELSE UserResult(200, << >>, t.token, row.id, rows, seq)

-----------------------------------------------------------------------------
(* Requests *)

Emails == {"a@x", "b@x"}
ShortPw == <<"p", "w">>
GoodPw == <<"p", "a", "s", "s", "w", "o", "r", "d">>
WrongPw == <<"P", "a", "s", "s", "w", "o", "r", "d">>

BadUserBody == [valid |-> FALSE, email |-> "", name |-> "", password |-> << >>]
RegisterBodies ==
    {BadUserBody} \cup
    {[valid |-> TRUE, email |-> e, name |-> "n", password |-> p] :
        e \in {""} \cup Emails, p \in {ShortPw, GoodPw}}
LoginBodies ==
    {BadUserBody} \cup
    {[valid |-> TRUE, email |-> e, name |-> "", password |-> p] :
        e \in {""} \cup Emails, p \in {GoodPw, WrongPw}}

BadTodoBody == [valid |-> FALSE, title |-> "", description |-> ""]
TodoBody(t, d) == [valid |-> TRUE, title |-> t, description |-> d]
AddBodies == {BadTodoBody, TodoBody("", "d1"), TodoBody("t1", "d1")}
UpdateBodies == {BadTodoBody, TodoBody("t2", ""), TodoBody("t2", "d1")}

PathSegs == {EmptyText, [kind |-> "text", val |-> 0]} \cup {IntText(i) : i \in 1 .. MaxTodos}
PageStrs == {EmptyText, IntText(2)}
LimitStrs == {EmptyText, IntText(1)}

Subjects == 1 .. MaxUsers

Bearer(t) == [pre |-> <<BearerPrefix>>, tok |-> t]

NoneToken(claims) ==
    [kind |-> "jwt", alg |-> "none", claims |-> claims, sig |-> EncodeSegment(NoMAC)]

\* What can be made of an issued token t: t itself; t with a trailing bit
\* of its signature segment flipped; t signed again under another secret;
\* t with another subject in its payload; t's claims under another
\* algorithm, signed with t's own key by a holder of it, or unsigned.
Variants(t) ==
    LET key == t.sig.mac.key IN
    {t, [t EXCEPT !.sig.pad = 1]}
    \cup {SignedString("HS256", t.claims, k) : k \in Secrets \ {key}}
    \cup {[t EXCEPT !.claims.user_id = u] : u \in Subjects \ {t.claims.user_id}}
    \cup {SignedString("HS384", t.claims, key), NoneToken(t.claims),
          [t EXCEPT !.alg = "XX"]}

CraftedClaims == [user_id |-> 1, exp |-> 2 * Validity, iat |-> 0]

\* The Authorization header values a client may send, given the tokens
\* that were handed out: the empty value, "Bearer " alone, a word that is
\* no token, a token signed with the empty key, and what can be made of the
\* tokens, after "Bearer ", after "bearer " and after "Bearer Bearer ".
HeaderValues(tokens) ==
    {EmptyStr, Bearer(EmptyTok), [pre |-> << >>, tok |-> GarbageTok],
     Bearer(SignedString("HS256", CraftedClaims, ""))}
    \cup {Bearer(v) : v \in UNION {Variants(e.tok) : e \in tokens}}
    \cup UNION {{[pre |-> <<"bearer ">>, tok |-> e.tok],
                 [pre |-> <<BearerPrefix, BearerPrefix>>, tok |-> e.tok]} : e \in tokens}

\* The headers of a request: no Authorization header, or one.
Headers(tokens) == {{}} \cup {{<<"Authorization", v>>} : v \in HeaderValues(tokens)}

\* The handlers that need an identity, and the method of the route main.go
\* registers each under.
TodoOps == {"AddTodo", "UpdateTodo", "DeleteTodo", "GetTodos"}
Method(op) ==
    CASE op = "AddTodo" -> "POST"
      [] op = "UpdateTodo" -> "PUT"
      [] op = "DeleteTodo" -> "DELETE"
      [] op = "GetTodos" -> "GET"

\* The methods of a request, and the contexts a handler may be called with
\* by a caller other than the gate: the background context, a context with
\* a value under a key of another type, and contexts with an identity.
Methods == {"GET", "POST", "PUT", "DELETE"}
Contexts ==
    {{}, {<<"user_id", 1>>}} \cup {WithValue({}, contextKey, u) : u \in Subjects}

NoResp ==
    [op |-> "none", status |-> 0, body |-> << >>, token |-> EmptyStr, at |-> 0,
     sub |-> 0, header |-> {}, trace |-> << >>, validated |-> EmptyStr,
     invoked |-> FALSE, ctx |-> {}, data |-> << >>, method |-> "",
     seg |-> EmptyText]

Idle == resp = NoResp

\* The requests being served at once, one goroutine each: a request that
\* passed the gate and whose handler has not run yet holds the context the
\* gate made for it.
Slots == 1 .. MaxInflight
NoRequest == [stage |-> "none", op |-> "none", header |-> {}, ctx |-> {}]

-----------------------------------------------------------------------------
(* Actions *)

Init ==
    /\ environ \in {NoEnv, {<<EnvName, "">>}, {<<EnvName, "k1">>}}
    /\ clock = 0
    /\ users = {}
    /\ userSeq = 0
    /\ todos = {}
    /\ todoSeq = 0
    /\ issued = {}
    /\ resp = NoResp
    /\ inflight = [i \in Slots |-> NoRequest]

\* Time passes.
Tick ==
    /\ Idle
    /\ \E t \in ClockValues : t > clock /\ clock' = t
    /\ UNCHANGED <<environ, users, userSeq, todos, todoSeq, issued, resp, inflight>>

\* The process environment is rewritten (os.Setenv, os.Unsetenv).
Setenv ==
    /\ Idle
    /\ \E e \in EnvValues : e # environ /\ environ' = e
    /\ UNCHANGED <<clock, users, userSeq, todos, todoSeq, issued, resp, inflight>>

\* The readings of time.Now() a call starting at the clock's value may take.
Readings == {t \in ClockValues : clock <= t /\ t <= clock + 1}

\* POST /register
PostRegister ==
    /\ Idle
    /\ \E body \in RegisterBodies, now2 \in Readings :
        LET r == RegisterUser("POST", body, environ, clock, now2, users, userSeq) IN
        /\ r.userSeq <= MaxUsers
        /\ users' = r.users
        /\ userSeq' = r.userSeq
        /\ clock' = IF r.token # EmptyStr THEN now2 ELSE clock
        /\ resp' = [NoResp EXCEPT !.op = "RegisterUser", !.status = r.status,
                                  !.body = r.body, !.token = r.token, !.at = clock,
                                  !.sub = r.sub]
    /\ UNCHANGED <<environ, todos, todoSeq, issued, inflight>>

\* POST /login
PostLogin ==
    /\ Idle
    /\ \E body \in LoginBodies, now2 \in Readings :
        LET r == LoginUser("POST", body, environ, clock, now2, users, userSeq) IN
        /\ clock' = IF r.token # EmptyStr THEN now2 ELSE clock
        /\ resp' = [NoResp EXCEPT !.op = "LoginUser", !.status = r.status,
                                  !.body = r.body, !.token = r.token, !.at = clock,
                                  !.sub = r.sub]
    /\ UNCHANGED <<environ, users, userSeq, todos, todoSeq, issued, inflight>>

\* The handler op called with a method, a context and the request
\* req = [seg, body, page, limit], on the tables given.
Invoke(op, method, ctx, req, userRows, rows, seq) ==
    CASE op = "AddTodo" -> AddTodo(method, ctx, req.body, userRows, rows, seq)
      [] op = "UpdateTodo" -> UpdateTodo(method, ctx, req.seg, req.body, rows, seq)
      [] op = "DeleteTodo" -> DeleteTodo(method, ctx, req.seg, rows, seq)
      [] op = "GetTodos" -> GetTodos(method, ctx, req.page, req.limit, rows, seq)

\* The handler a route of main.go wraps, called with the method of its
\* pattern.
Handler(op, ctx, req) == Invoke(op, Method(op), ctx, req, users, todos, todoSeq)

Request(seg, body, page, limit) ==
    [seg |-> seg, body |-> body, page |-> page, limit |-> limit]

\* A route registered as AuthMiddleware(handler): the gate, then the
\* handler with the context the gate made, when the gate lets it through.
Routed(op, header, req) ==
    LET g == AuthMiddleware(header, environ, clock) IN
    /\ IF g.pass
       THEN LET h == Handler(op, g.ctx, req) IN
            /\ h.todoSeq <= MaxTodos
            /\ todos' = h.todos
            /\ todoSeq' = h.todoSeq
            /\ resp' = [NoResp EXCEPT !.op = op, !.status = h.status, !.body = h.body,
                                      !.header = header, !.trace = g.trace,
                                      !.validated = g.validated, !.invoked = TRUE,
                                      !.ctx = g.ctx, !.data = h.data,
                                      !.method = Method(op), !.seg = req.seg]
       ELSE /\ UNCHANGED <<todos, todoSeq>>
            /\ resp' = [NoResp EXCEPT !.op = op, !.status = g.status, !.body = g.body,
                                      !.header = header, !.trace = g.trace,
                                      !.validated = g.validated,
                                      !.method = Method(op), !.seg = req.seg]
    /\ UNCHANGED <<environ, clock, users, userSeq, issued, inflight>>

\* POST /todos
PostTodos ==
    /\ Idle
    /\ \E hd \in Headers(issued), body \in AddBodies :
        Routed("AddTodo", hd, Request(EmptyText, body, EmptyText, EmptyText))

\* PUT /todos/
PutTodos ==
    /\ Idle
    /\ \E hd \in Headers(issued), seg \in PathSegs, body \in UpdateBodies :
        Routed("UpdateTodo", hd, Request(seg, body, EmptyText, EmptyText))

\* DELETE /todos/
DeleteTodos ==
    /\ Idle
    /\ \E hd \in Headers(issued), seg \in PathSegs :
        Routed("DeleteTodo", hd, Request(seg, BadTodoBody, EmptyText, EmptyText))

\* GET /todos
GetTodosRoute ==
    /\ Idle
    /\ \E hd \in Headers(issued), pg \in PageStrs, lm \in LimitStrs :
        Routed("GetTodos", hd, Request(EmptyText, BadTodoBody, pg, lm))

\* A handler called without the gate, as a test or a route registered
\* without AuthMiddleware would call it: any method, any context.
Call ==
    /\ Idle
    /\ \E op \in TodoOps, m \in Methods, ctx \in Contexts, seg \in PathSegs,
          body \in AddBodies :
        LET req == Request(seg, body, EmptyText, EmptyText)
            h == Invoke(op, m, ctx, req, users, todos, todoSeq)
        IN /\ h.todoSeq <= MaxTodos
           /\ todos' = h.todos
           /\ todoSeq' = h.todoSeq
           /\ resp' = [NoResp EXCEPT !.op = op, !.status = h.status, !.body = h.body,
                                     !.invoked = TRUE, !.ctx = ctx, !.data = h.data,
                                     !.method = m, !.seg = seg]
    /\ UNCHANGED <<environ, clock, users, userSeq, issued, inflight>>

\* The headers of the requests served at once: none, or a token handed out.
OwnHeaders == {{}} \cup {{<<"Authorization", Bearer(e.tok)>>} : e \in issued}

\* A context held as one value of the package, written by every gate:
\* that of the last slot that passed.
RequestContextShared(fl, i) ==
    fl[CHOOSE j \in Slots : fl[j].stage = "gated" /\
                            \A k \in Slots : fl[k].stage = "gated" => k <= j].ctx

\* r.Context() of the request in slot i.
RequestContext(fl, i) == fl[i].ctx

\* The gate of one of several requests served at once: up to the call of
\* the wrapped handler, or the 401.
Gate ==
    \E i \in Slots, op \in {"AddTodo", "GetTodos"}, hd \in OwnHeaders :
        LET g == AuthMiddleware(hd, environ, clock) IN
        /\ inflight[i].stage = "none"
        /\ IF g.pass
           THEN /\ inflight' = [inflight EXCEPT
                                   ![i] = [stage |-> "gated", op |-> op,
                                           header |-> hd, ctx |-> g.ctx]]
                /\ resp' = resp
           ELSE /\ Idle
                /\ inflight' = inflight
                /\ resp' = [NoResp EXCEPT !.op = op, !.status = g.status,
                                          !.body = g.body, !.header = hd,
                                          !.trace = g.trace,
                                          !.validated = g.validated,
                                          !.method = Method(op)]
        /\ UNCHANGED <<environ, clock, users, userSeq, todos, todoSeq, issued>>

\* The wrapped handler of a request that passed the gate, run with the
\* context of its request while other requests are in flight.
ServeHTTP ==
    /\ Idle
    /\ \E i \in Slots :
        /\ inflight[i].stage = "gated"
        /\ LET r == inflight[i]
               ctx == RequestContext(inflight, i)
               req == Request(EmptyText, TodoBody("t1", "d1"), EmptyText, EmptyText)
               h == Handler(r.op, ctx, req)
           IN /\ h.todoSeq <= MaxTodos
              /\ todos' = h.todos
              /\ todoSeq' = h.todoSeq
              /\ resp' = [NoResp EXCEPT !.op = r.op, !.status = h.status,
                                        !.body = h.body, !.header = r.header,
                                        !.invoked = TRUE, !.ctx = ctx,
                                        !.data = h.data, !.method = Method(r.op)]
        /\ inflight' = [inflight EXCEPT ![i] = NoRequest]
    /\ UNCHANGED <<environ, clock, users, userSeq, issued>>

\* The response reaches the client; a token in it joins the tokens the
\* clients hold (at most MaxIssued of them are kept).
Deliver ==
    /\ ~Idle
    /\ resp' = NoResp
    /\ IF resp.token = EmptyStr
       THEN issued' = issued
       ELSE LET e == [tok |-> resp.token.tok, at |-> resp.at, sub |-> resp.sub]
                all == issued \cup {e}
            IN \E S \in SUBSET all :
                /\ e \in S
                /\ Cardinality(S) = (IF Cardinality(all) < MaxIssued
                                     THEN Cardinality(all) ELSE MaxIssued)
                /\ issued' = S
    /\ UNCHANGED <<environ, clock, users, userSeq, todos, todoSeq, inflight>>

Next ==
    \/ Tick
    \/ Setenv
    \/ PostRegister
    \/ PostLogin
    \/ PostTodos
    \/ PutTodos
    \/ DeleteTodos
    \/ GetTodosRoute
    \/ Call
    \/ Gate
    \/ ServeHTTP
    \/ Deliver

Spec == Init /\ [][Next]_vars

\* The program as it is: nothing in it writes the environment, so without
\* Setenv; and with the two routes that add and list todos.
NextAuth ==
    \/ Tick
    \/ PostRegister
    \/ PostLogin
    \/ PostTodos
    \/ GetTodosRoute
    \/ Deliver

SpecAuth == Init /\ [][NextAuth]_vars

\* The same with the environment rewritten while the process runs.
NextRotate ==
    \/ Setenv
    \/ PostRegister
    \/ PostLogin
    \/ GetTodosRoute
    \/ Deliver

SpecRotate == Init /\ [][NextRotate]_vars

\* Registered users working on their todos through the four gated routes.
NextTodos ==
    \/ PostRegister
    \/ PostTodos
    \/ PutTodos
    \/ DeleteTodos
    \/ GetTodosRoute
    \/ Deliver

SpecTodos == Init /\ [][NextTodos]_vars

\* Requests of registered users served at once.
NextConcurrent ==
    \/ PostRegister
    \/ Gate
    \/ ServeHTTP
    \/ Deliver

SpecConcurrent == Init /\ [][NextConcurrent]_vars

\* The handlers called without the gate, on the tables registrations and
\* such calls have filled.
NextDirect ==
    \/ PostRegister
    \/ Call
    \/ Deliver

SpecDirect == Init /\ [][NextDirect]_vars

-----------------------------------------------------------------------------
(* Properties *)

\* The secret the process reads now.
Secret == Getenv(environ, EnvName)

\* A token as the string ValidateToken is given; a request's headers with
\* the Authorization value v.
Str(t) == [pre |-> << >>, tok |-> t]
AuthHeader(v) == {<<"Authorization", v>>}

ExpiredBody ==
    <<"Invalid or expired token: ", "token parsing error: ",
      "token has invalid claims", "token is expired">>

\* C1 as stated: a token GenerateToken made for subject S at time e.at is
\* accepted by ValidateToken, with UserID = S, at every time T with
\* e.at <= T < e.at + 2 hours, the secret being the one it was signed with.
C1_ValidForTwoHours ==
    \A e \in issued :
        (Secret = e.tok.sig.mac.key /\ e.at <= clock /\ clock < e.at + Validity)
        => LET v == ValidateToken(Str(e.tok), environ, clock)
           IN v.ok /\ v.claims.user_id = e.sub

\* C1 amended: the same for every time T with e.at <= T < expires-at, where
\* expires-at is e.at + 2 hours cut down to the whole second.
C1_ValidUntilExpiresAt ==
    \A e \in issued :
        (Secret = e.tok.sig.mac.key /\ e.at <= clock
            /\ clock < Truncate(e.at + Validity))
        => LET v == ValidateToken(Str(e.tok), environ, clock)
           IN v.ok /\ v.claims.user_id = e.sub

\* A token issued within a second is validated, and lets a request through
\* with its subject, one tick before it expires.
C1_Witness ==
    \E e \in issued :
        /\ e.at = 1
        /\ clock = Validity - 1
        /\ resp.validated = Str(e.tok)
        /\ resp.invoked
        /\ GetUserIDFromContext(resp.ctx).userID = e.sub

\* C2: a token GenerateToken made at time e.at is rejected by ValidateToken
\* at every time T >= e.at + 2 hours; it is accepted only while the time is
\* strictly before its expires-at; a request bearing it from then on is
\* answered 401 and the wrapped handler is not called.
C2_RejectedAfterTwoHours ==
    \A e \in issued :
        LET v == ValidateToken(Str(e.tok), environ, clock) IN
        /\ clock >= e.at + Validity => ~v.ok
        /\ v.ok => clock < e.tok.claims.exp
        /\ (resp.op \in TodoOps /\ resp.header = AuthHeader(Bearer(e.tok))
                /\ clock >= e.at + Validity)
           => (~resp.invoked /\ resp.status = 401)

\* A request bearing a token two hours old or older was answered 401, the
\* token being expired.
C2_Witness ==
    \E e \in issued :
        /\ clock >= e.at + Validity
        /\ resp.header = AuthHeader(Bearer(e.tok))
        /\ resp.status = 401
        /\ resp.body = ExpiredBody
        /\ ~resp.invoked

\* Whether the gate took the step named.
Took(step) == \E i \in DOMAIN resp.trace : resp.trace[i] = step

\* C3: when a request is served by a gated route, the wrapped handler is
\* called only if the Authorization header was there, began with "Bearer "
\* and ValidateToken accepted the rest; otherwise the answer is 401 and the
\* users and todos tables are as they were.
C3_AllOrNothing ==
    [][(Idle /\ resp'.op \in TodoOps) =>
          LET a == HeaderGet(resp'.header, "Authorization") IN
          /\ resp'.invoked =>
                /\ a # EmptyStr
                /\ a.pre # << >>
                /\ Head(a.pre) = "Bearer "
                /\ ValidateToken([a EXCEPT !.pre = Tail(a.pre)], environ, clock).ok
          /\ ~resp'.invoked =>
                /\ resp'.status = 401
                /\ UNCHANGED <<users, userSeq, todos, todoSeq>>
      ]_vars

\* A request to add a todo was turned away by a failed validation, with a
\* todo in the store.
C3_Witness ==
    /\ resp.op = "AddTodo"
    /\ resp.trace = <<"Header.Get", "TrimPrefix", "ValidateToken">>
    /\ resp.status = 401
    /\ ~resp.invoked
    /\ todos # {}

\* C4: a request bearing "Bearer <t>", t issued for subject S, signed with
\* the current secret and not expired, reaches the wrapped handler, and
\* GetUserIDFromContext on the context it is given returns (S, true); a
\* todo it adds is S's.
C4_HandlerSeesSubject ==
    \A e \in issued :
        (resp.op \in TodoOps /\ resp.header = AuthHeader(Bearer(e.tok))
            /\ Secret = e.tok.sig.mac.key /\ clock < e.tok.claims.exp)
        => /\ resp.invoked
           /\ GetUserIDFromContext(resp.ctx) = [userID |-> e.sub, ok |-> TRUE]
           /\ resp.status = 201 =>
                \E r \in todos : r.id = resp.data[1].id /\ r.user_id = e.sub

\* The second user's token let a request through that added a todo.
C4_Witness ==
    \E e \in issued :
        /\ e.sub = 2
        /\ resp.op = "AddTodo"
        /\ resp.header = AuthHeader(Bearer(e.tok))
        /\ resp.invoked
        /\ resp.status = 201

\* C5 as stated: a token whose signature segment is not the encoding of the
\* HMAC, under the current secret and the token's own algorithm, of its own
\* header and payload is never accepted.
C5_SignatureSegmentBinds ==
    LET t == resp.validated.tok IN
    (resp.op \in TodoOps /\ t.kind = "jwt"
        /\ t.sig # EncodeSegment(HMAC(t.alg, Secret, SigningInput(t.alg, t.claims))))
    => ~resp.invoked

\* A token handed out came back with the unused low bits of its signature's
\* last character changed, and the wrapped handler was called.
C5_AlteredSegmentAccepted ==
    \E e \in issued :
        /\ resp.op \in TodoOps
        /\ resp.validated = Str([e.tok EXCEPT !.sig.pad = 1])
        /\ resp.invoked
        /\ GetUserIDFromContext(resp.ctx).userID = e.sub

\* C6 as stated: a token whose header names another algorithm than HS256 is
\* never accepted.
C6_OnlyHS256 ==
    LET t == resp.validated.tok IN
    (resp.op \in TodoOps /\ t.kind = "jwt" /\ t.alg # "HS256") => ~resp.invoked

\* A token with alg HS384, signed with the configured secret, let a request
\* through.
C6_HS384Accepted ==
    LET t == resp.validated.tok IN
    /\ resp.op \in TodoOps
    /\ t.alg = "HS384"
    /\ t.sig = EncodeSegment(HMAC("HS384", Secret, SigningInput("HS384", t.claims)))
    /\ resp.invoked

\* C7: while JWT_SECRET_KEY is unset or empty, GenerateToken fails for
\* every subject, ValidateToken fails for every string a client can send, no
\* response carries a token, a handler that got as far as GenerateToken
\* answers 500, and no request passes the gate; no token in circulation was
\* signed with the empty key.
C7_NoSecretNoToken ==
    /\ Secret = "" =>
          /\ \A u \in Subjects, t \in Readings :
                LET g == GenerateToken(u, environ, clock, t)
                IN g.err # << >> /\ g.token = EmptyStr
          /\ \A v \in HeaderValues(issued) :
                ~ValidateToken(TrimPrefix(v, BearerPrefix), environ, clock).ok
          /\ resp.token = EmptyStr
          /\ resp.sub # 0 => resp.status = 500
          /\ ~resp.invoked
    /\ \A e \in issued : e.tok.sig.mac.key # ""

\* With no secret, a user was registered and a token signed with the empty
\* key was turned away.
C7_Witness ==
    /\ Secret = ""
    /\ users # {}
    /\ resp.validated = Str(SignedString("HS256", CraftedClaims, ""))
    /\ resp.status = 401
    /\ resp.body = <<"Invalid or expired token: ",
                     "JWT_SECRET_KEY environment variable not set">>

\* C8: a request with no Authorization header, or an empty one, is
\* answered 401 after the header was read and nothing else: no prefix test,
\* no validation, no call of the wrapped handler.
C8_MissingHeader ==
    (resp.op \in TodoOps /\ resp.header \in {{}, AuthHeader(EmptyStr)})
    => /\ resp.status = 401
       /\ resp.trace = <<"Header.Get">>
       /\ ~Took("TrimPrefix")
       /\ ~Took("ValidateToken")
       /\ ~resp.invoked

\* A request without the header was turned away while a token was out.
C8_Witness ==
    /\ resp.op = "GetTodos"
    /\ resp.header = {}
    /\ resp.status = 401
    /\ issued # {}

\* C9: a non-empty Authorization value that does not begin with "Bearer "
\* is answered 401 without ValidateToken being called; ValidateToken is
\* called only on the value with that prefix taken off, once.
C9_BearerPrefix ==
    resp.op \in TodoOps =>
        LET a == HeaderGet(resp.header, "Authorization")
            prefixed == a.pre # << >> /\ Head(a.pre) = "Bearer "
        IN /\ (a # EmptyStr /\ ~prefixed) =>
                  /\ resp.status = 401
                  /\ ~Took("ValidateToken")
                  /\ ~resp.invoked
           /\ Took("ValidateToken") =>
                  /\ prefixed
                  /\ resp.validated = [pre |-> Tail(a.pre), tok |-> a.tok]

\* A token that would be accepted, sent after "bearer ", was turned away.
C9_Witness ==
    \E e \in issued :
        /\ resp.header = AuthHeader([pre |-> <<"bearer ">>, tok |-> e.tok])
        /\ ValidateToken(Str(e.tok), environ, clock).ok
        /\ resp.status = 401
        /\ ~resp.invoked

\* C10 as stated, for a process that had a secret: when the environment's
\* JWT_SECRET_KEY changes while the process runs, ValidateToken's outcome
\* on every string a client can send and GenerateToken's result for every
\* subject stay what they were.
C10_SecretFixedAtStart ==
    [][(Secret # "" /\ environ' # environ) =>
          /\ \A v \in HeaderValues(issued) :
                ValidateToken(TrimPrefix(v, BearerPrefix), environ', clock')
                    = ValidateToken(TrimPrefix(v, BearerPrefix), environ, clock)
          /\ \A u \in Subjects :
                GenerateToken(u, environ', clock', clock')
                    = GenerateToken(u, environ, clock, clock)
      ]_vars

\* A token the process signed was turned away for its signature once the
\* environment's secret had become another.
C10_OwnTokenRefused ==
    \E e \in issued :
        /\ Secret \notin {"", e.tok.sig.mac.key}
        /\ resp.validated = Str(e.tok)
        /\ resp.status = 401
        /\ resp.body = <<"Invalid or expired token: ", "token parsing error: ",
                         "token signature is invalid", "signature is invalid">>

\* A context that carries no value under the gate's key.
NoIdentity(ctx) == ~\E p \in ctx : p[1] = contextKey

\* The requests a handler may be given: every path with every payload, and
\* every query.
Requests ==
    {Request(seg, body, EmptyText, EmptyText) :
        seg \in PathSegs, body \in AddBodies \cup UpdateBodies}
    \cup {Request(EmptyText, BadTodoBody, pg, lm) : pg \in PageStrs, lm \in LimitStrs}

\* C11 as stated: a handler called with a context that carries no identity
\* answers 401, whatever the method of the request.
C11_UnauthorizedForEveryMethod ==
    (resp.op \in TodoOps /\ resp.invoked /\ NoIdentity(resp.ctx))
    => resp.status = 401

\* C11: a handler called with a context that carries no identity answers
\* 401 when the method is the one it serves and 405 otherwise, and leaves
\* the tables as they were; and to every request with that method and
\* context its answer is the one it gives on empty tables.
C11_NoIdentityNoStoreAccess ==
    [][(Idle /\ resp'.op \in TodoOps /\ resp'.invoked /\ NoIdentity(resp'.ctx)) =>
          /\ resp'.status = (IF resp'.method = Method(resp'.op) THEN 401 ELSE 405)
          /\ resp'.data = << >>
          /\ UNCHANGED <<users, userSeq, todos, todoSeq>>
          /\ \A req \in Requests :
                LET h == Invoke(resp'.op, resp'.method, resp'.ctx, req,
                                users, todos, todoSeq)
                    h0 == Invoke(resp'.op, resp'.method, resp'.ctx, req, {}, {}, 0)
                IN /\ h.status = h0.status
                   /\ h.body = h0.body
                   /\ h.data = h0.data
                   /\ h.todos = todos
                   /\ h.todoSeq = todoSeq
      ]_vars

\* AddTodo was called with its own method and a context without identity,
\* with a todo in the table, and answered 401.
C11_Witness ==
    /\ resp.op = "AddTodo"
    /\ resp.method = "POST"
    /\ resp.invoked
    /\ NoIdentity(resp.ctx)
    /\ resp.ctx # {}
    /\ resp.status = 401
    /\ todos # {}

\* The todo of another user than U that the path segment seg names.
OthersTodo(rows, U, seg) == {r \in rows : r.user_id # U /\ seg = IntText(r.id)}

\* What a request let through as subject U did to the table: the rows it
\* added or wrote are U's, the rows it changed or removed were U's, and the
\* items of its answer are rows of U's.
Scoped(U, before, after, data) ==
    /\ \A r \in after \ before : r.user_id = U
    /\ \A r \in before \ after : r.user_id = U
    /\ \A i \in DOMAIN data :
          \E r \in after : r.id = data[i].id /\ r.user_id = U

\* C12 as stated: a request let through as subject U adds, reads, changes
\* and removes only todos of U, and an UpdateTodo or DeleteTodo whose path
\* names a todo of another user answers 403 and leaves that todo as it was.
C12_OwnTodosOnly ==
    [][(Idle /\ resp'.op \in TodoOps /\ resp'.invoked) =>
          LET U == GetUserIDFromContext(resp'.ctx).userID IN
          /\ Scoped(U, todos, todos', resp'.data)
          /\ resp'.op \in {"UpdateTodo", "DeleteTodo"} =>
                \A r \in OthersTodo(todos, U, resp'.seg) :
                    resp'.status = 403 /\ r \in todos'
      ]_vars

\* C12: the same, the answer to an UpdateTodo that names a todo of another
\* user being 400 when its payload is not JSON or lacks a field, and 403
\* for every payload that has both fields.
C12_OwnTodosOnlyValidPayload ==
    [][(Idle /\ resp'.op \in TodoOps /\ resp'.invoked) =>
          LET U == GetUserIDFromContext(resp'.ctx).userID IN
          /\ Scoped(U, todos, todos', resp'.data)
          /\ resp'.op \in {"UpdateTodo", "DeleteTodo"} =>
                \A r \in OthersTodo(todos, U, resp'.seg) :
                    /\ r \in todos'
                    /\ \/ resp'.status = 403
                       \/ /\ resp'.op = "UpdateTodo"
                          /\ resp'.status = 400
                          /\ resp'.body \in {<<"Invalid request payload">>,
                                             <<"All fields are required">>}
                    /\ \A b \in UpdateBodies :
                          (b.valid /\ b.title # "" /\ b.description # "") =>
                              LET h == UpdateTodo("PUT", resp'.ctx, resp'.seg, b,
                                                  todos, todoSeq)
                              IN h.status = 403 /\ h.todos = todos
      ]_vars

\* The second user asked to delete the first user's todo and got 403, the
\* todo still there.
C12_Witness ==
    /\ resp.op = "DeleteTodo"
    /\ resp.invoked
    /\ GetUserIDFromContext(resp.ctx) = [userID |-> 2, ok |-> TRUE]
    /\ resp.status = 403
    /\ \E r \in todos : r.user_id = 1 /\ resp.seg = IntText(r.id)

\* The gate's answer to a request whose Authorization value is v, now.
GateAnswer(v) == AuthMiddleware(AuthHeader(v), environ, clock)

\* The gate turned the request away because ValidateToken failed.
FailedVerification(g) ==
    ~g.pass /\ g.trace = <<"Header.Get", "TrimPrefix", "ValidateToken">>

\* C13 as stated: a response to a request turned away because verification
\* failed has the status and the body of the response to every other
\* request that verification fails for, whatever the reason.
C13_FailuresIndistinguishable ==
    (resp.op \in TodoOps /\ Took("ValidateToken") /\ ~resp.invoked) =>
        \A v \in HeaderValues(issued) :
            FailedVerification(GateAnswer(v)) =>
                /\ GateAnswer(v).status = resp.status
                /\ GateAnswer(v).body = resp.body

\* A token handed out was turned away as expired, in words other than
\* those the same token signed under another secret is turned away with.
C13_SubtypeRevealed ==
    \E e \in issued, k \in Secrets :
        LET g == GateAnswer(Bearer(SignedString("HS256", e.tok.claims, k))) IN
        /\ resp.validated = Str(e.tok)
        /\ resp.status = 401
        /\ resp.body = ExpiredBody
        /\ FailedVerification(g)
        /\ g.status = 401
        /\ g.body = <<"Invalid or expired token: ", "token parsing error: ",
                      "token signature is invalid", "signature is invalid">>

\* The subject in the payload of the token a request's headers carry.
SubjectOf(header) == HeaderGet(header, "Authorization").tok.claims.user_id

\* C14: with several requests in flight, a step of the gate of one of them
\* writes the context of that request and nothing else, neither a table,
\* nor the environment, nor another request; and the handler of a request
\* that passed the gate, whatever ran in between, finds under
\* GetUserIDFromContext the subject of its own request's token, works on
\* that subject's todos and leaves the other requests as they were.
C14_OwnIdentityOnly ==
    [][\A i \in Slots :
          /\ (inflight[i].stage = "none" /\ inflight'[i].stage = "gated") =>
                /\ UNCHANGED <<environ, clock, users, userSeq, todos, todoSeq,
                               issued, resp>>
                /\ \A j \in Slots \ {i} : inflight'[j] = inflight[j]
                /\ GetUserIDFromContext(inflight'[i].ctx)
                      = [userID |-> SubjectOf(inflight'[i].header), ok |-> TRUE]
          /\ (inflight[i].stage = "gated" /\ inflight'[i].stage = "none") =>
                /\ resp'.invoked
                /\ GetUserIDFromContext(resp'.ctx)
                      = [userID |-> SubjectOf(inflight[i].header), ok |-> TRUE]
                /\ Scoped(SubjectOf(inflight[i].header), todos, todos', resp'.data)
                /\ \A j \in Slots \ {i} : inflight'[j] = inflight[j]
      ]_vars

\* The handler of one request added a todo for its subject while a request
\* of another subject, past the gate, waited for its handler.
C14_Witness ==
    \E i \in Slots :
        /\ inflight[i].stage = "gated"
        /\ resp.op = "AddTodo"
        /\ resp.invoked
        /\ resp.status = 201
        /\ resp.header # {}
        /\ SubjectOf(resp.header) # SubjectOf(inflight[i].header)
        /\ \E r \in todos : r.user_id = SubjectOf(resp.header)

\* The users whose email and password a login payload gives.
Matching(body) ==
    {u \in users : u.email = body.email
                   /\ CompareHashAndPassword(u.password_hash, body.password)}

\* C15: on the users registered so far, LoginUser gives a token only for a
\* payload whose email is a user's and whose password verifies against
\* that user's hash, with that user's ID as subject; for a payload with
\* both fields whose email is unknown or whose password is wrong it answers
\* 401 "Invalid credentials" with no token, the same in both cases; and
\* the response sent is of one of these kinds.
C15_LoginOnlyForVerifiedUser ==
    /\ \A body \in LoginBodies, now2 \in Readings :
          LET r == LoginUser("POST", body, environ, clock, now2, users, userSeq) IN
          /\ r.token # EmptyStr =>
                /\ r.status = 200
                /\ \E u \in Matching(body) :
                      r.sub = u.id /\ r.token.tok.claims.user_id = u.id
          /\ (body.valid /\ body.email # "" /\ body.password # << >>
                /\ Matching(body) = {}) =>
                /\ r.status = 401
                /\ r.body = <<"Invalid credentials">>
                /\ r.token = EmptyStr
          /\ r.users = users
    /\ resp.op = "LoginUser" =>
          /\ resp.token # EmptyStr =>
                /\ resp.status = 200
                /\ \E u \in users :
                      resp.sub = u.id /\ resp.token.tok.claims.user_id = u.id
          /\ resp.status = 401 =>
                resp.token = EmptyStr /\ resp.body = <<"Invalid credentials">>

\* With every email registered, a login was answered 401: the password
\* was wrong.
C15_Witness ==
    /\ \A e \in Emails : \E u \in users : u.email = e
    /\ resp.op = "LoginUser"
    /\ resp.status = 401
    /\ resp.body = <<"Invalid credentials">>
    /\ resp.token = EmptyStr

\* The registration payloads that pass RegisterUser's own tests.
Acceptable(body) ==
    /\ body.valid
    /\ body.email # ""
    /\ body.name # ""
    /\ Len(body.password) >= MinPasswordLen

====
